---- MODULE Spec2Model ----
(***************************************************************************)
(* Model of the InterLock mesh transport of linus-inspector:               *)
(*   - the BaNano wire codec (encodeMessage / decodeMessage),              *)
(*   - the InterlockSocket (start / stop / dispatch / send).               *)
(* Text is a sequence of Unicode code points, a Buffer a sequence of       *)
(* bytes 0..255.  JSON values are tagged records.                          *)
(***************************************************************************)
EXTENDS Integers, Sequences, FiniteSets, TLC

(***************************************************************************)
(* Bounds of the model.                                                    *)
(***************************************************************************)
MaxStrLen == 2
MaxArrLen == 2
MaxHandlers == 3
MaxStarts == 2

(***************************************************************************)
(* Program constants.                                                      *)
(***************************************************************************)
PROTOCOL_VERSION == 1
HEADER_SIZE == 12

BUILD_STARTED == 192
INSPECTION_REQUESTED == 195
INSPECTION_PASSED == 196
INSPECTION_FAILED == 197
LESSON_EXTRACTED == 199
PRE_INSPECTION_COMPLETE == 208
PRE_INSPECTION_REQUESTED == 210
SKILL_VALIDATION_REQUESTED == 211
PROMPT_VALIDATION_REQUESTED == 212

(***************************************************************************)
(* JSON values (the payload: any).                                         *)
(***************************************************************************)
JUndefined == [t |-> "undefined"]
JNull == [t |-> "null"]
JBool(b) == [t |-> "bool", b |-> b]
JNum(n) == [t |-> "num", n |-> n]
JStr(s) == [t |-> "str", s |-> s]
JArr(a) == [t |-> "arr", a |-> a]
JObj(m) == [t |-> "obj", m |-> m]

\* The characters strings are built from: a, ", \ and U+00E9 (two UTF-8 bytes).
StrAlphabet == {97, 34, 92, 233}
NumSamples == {0, 7, -12, 120}
Strings == UNION {[1..n -> StrAlphabet] : n \in 0..MaxStrLen}
Atoms ==
    {JNull, JBool(TRUE), JBool(FALSE)}
    \cup {JNum(n) : n \in NumSamples}
    \cup {JStr(s) : s \in Strings}
KeyK == <<107>>
KeyQ == <<233, 34>>
Elems ==
    {JNull, JBool(FALSE), JNum(-12), JStr(<<34>>), JStr(<<233>>), JArr(<<>>),
     JObj(<< <<KeyK, JNum(7)>> >>)}
Arrays == {JArr(a) : a \in UNION {[1..n -> Elems] : n \in 0..MaxArrLen}}
MemberValues == Elems \cup {JArr(<<JNull>>)}
Objects ==
    {JObj(<<>>)}
    \cup {JObj(<< <<k, v>> >>) : k \in {KeyK, KeyQ}, v \in MemberValues}
    \cup {JObj(<< <<KeyK, v>>, <<KeyQ, w>> >>) : v \in MemberValues, w \in MemberValues}
JsonValues == Atoms \cup Arrays \cup Objects
Payloads == {JUndefined} \cup JsonValues

(***************************************************************************)
(* Sequence helpers.                                                       *)
(***************************************************************************)
RECURSIVE Flatten(_)
Flatten(ss) == IF ss = <<>> THEN <<>> ELSE Head(ss) \o Flatten(Tail(ss))

(***************************************************************************)
(* JSON.stringify, on the values above.                                    *)
(***************************************************************************)
RECURSIVE Digits(_)
Digits(n) == IF n < 10 THEN <<48 + n>> ELSE Digits(n \div 10) \o <<48 + (n % 10)>>

NumberText(n) == IF n < 0 THEN <<45>> \o Digits(-n) ELSE Digits(n)

\* QuoteJSONString: " and \ are escaped with a backslash.
QuoteChar(c) == IF c \in {34, 92} THEN <<92, c>> ELSE <<c>>
Quote(s) == <<34>> \o Flatten([i \in 1..Len(s) |-> QuoteChar(s[i])]) \o <<34>>

RECURSIVE JoinComma(_)
JoinComma(ss) ==
    IF ss = <<>> THEN <<>>
    ELSE IF Len(ss) = 1 THEN ss[1]
    ELSE ss[1] \o <<44>> \o JoinComma(Tail(ss))

RECURSIVE JSONStringify(_)
JSONStringify(v) ==
    CASE v.t = "null" -> <<110, 117, 108, 108>>
      [] v.t = "bool" -> IF v.b THEN <<116, 114, 117, 101>> ELSE <<102, 97, 108, 115, 101>>
      [] v.t = "num" -> NumberText(v.n)
      [] v.t = "str" -> Quote(v.s)
      [] v.t = "arr" ->
            <<91>> \o JoinComma([i \in 1..Len(v.a) |-> JSONStringify(v.a[i])]) \o <<93>>
      [] v.t = "obj" ->
            <<123>>
            \o JoinComma([i \in 1..Len(v.m) |->
                   Quote(v.m[i][1]) \o <<58>> \o JSONStringify(v.m[i][2])])
            \o <<125>>

(***************************************************************************)
(* JSON.parse: a recursive-descent parser of the JSON grammar without      *)
(* white space, fractions and exponents (no modelled text holds them).     *)
(* A result is [ok |-> FALSE] or [ok |-> TRUE, v |-> value, i |-> next].    *)
(***************************************************************************)
ParseFail == [ok |-> FALSE]
ParseOk(v, i) == [ok |-> TRUE, v |-> v, i |-> i]

Matches(s, i, lit) ==
    /\ i + Len(lit) - 1 <= Len(s)
    /\ \A k \in 1..Len(lit) : s[i + k - 1] = lit[k]

RECURSIVE ScanString(_, _, _)
ScanString(s, i, acc) ==
    IF i > Len(s) THEN ParseFail
    ELSE IF s[i] = 34 THEN ParseOk(acc, i + 1)
    ELSE IF s[i] = 92 THEN
        IF i + 1 <= Len(s) /\ s[i + 1] \in {34, 92, 47}
        THEN ScanString(s, i + 2, Append(acc, s[i + 1]))
        ELSE ParseFail
    ELSE IF s[i] < 32 THEN ParseFail
    ELSE ScanString(s, i + 1, Append(acc, s[i]))

IsDigit(c) == c >= 48 /\ c <= 57

RECURSIVE ScanDigits(_, _, _)
ScanDigits(s, i, acc) ==
    IF i <= Len(s) /\ IsDigit(s[i])
    THEN ScanDigits(s, i + 1, 10 * acc + (s[i] - 48))
    ELSE ParseOk(acc, i)

ScanNumber(s, i) ==
    LET neg == i <= Len(s) /\ s[i] = 45
        j == IF neg THEN i + 1 ELSE i
    IN  IF ~(j <= Len(s) /\ IsDigit(s[j])) THEN ParseFail
        ELSE IF s[j] = 48 THEN ParseOk(JNum(0), j + 1)
        ELSE LET r == ScanDigits(s, j, 0)
             IN  ParseOk(JNum(IF neg THEN -r.v ELSE r.v), r.i)

\* An object keeps one value per key: a repeated key overwrites in place.
PutMember(m, k, v) ==
    IF \E i \in 1..Len(m) : m[i][1] = k
    THEN [i \in 1..Len(m) |-> IF m[i][1] = k THEN <<k, v>> ELSE m[i]]
    ELSE Append(m, <<k, v>>)

RECURSIVE ParseValue(_, _), ParseElements(_, _, _), ParseMembers(_, _, _)
ParseValue(s, i) ==
    IF i > Len(s) THEN ParseFail
    ELSE IF Matches(s, i, <<110, 117, 108, 108>>) THEN ParseOk(JNull, i + 4)
    ELSE IF Matches(s, i, <<116, 114, 117, 101>>) THEN ParseOk(JBool(TRUE), i + 4)
    ELSE IF Matches(s, i, <<102, 97, 108, 115, 101>>) THEN ParseOk(JBool(FALSE), i + 5)
    ELSE IF s[i] = 34 THEN
        LET r == ScanString(s, i + 1, <<>>)
        IN  IF r.ok THEN ParseOk(JStr(r.v), r.i) ELSE ParseFail
    ELSE IF s[i] = 45 \/ IsDigit(s[i]) THEN ScanNumber(s, i)
    ELSE IF s[i] = 91 THEN
        IF i + 1 <= Len(s) /\ s[i + 1] = 93 THEN ParseOk(JArr(<<>>), i + 2)
        ELSE ParseElements(s, i + 1, <<>>)
    ELSE IF s[i] = 123 THEN
        IF i + 1 <= Len(s) /\ s[i + 1] = 125 THEN ParseOk(JObj(<<>>), i + 2)
        ELSE ParseMembers(s, i + 1, <<>>)
    ELSE ParseFail

ParseElements(s, i, acc) ==
    LET r == ParseValue(s, i)
    IN  IF ~r.ok \/ r.i > Len(s) THEN ParseFail
        ELSE IF s[r.i] = 44 THEN ParseElements(s, r.i + 1, Append(acc, r.v))
        ELSE IF s[r.i] = 93 THEN ParseOk(JArr(Append(acc, r.v)), r.i + 1)
        ELSE ParseFail

ParseMembers(s, i, acc) ==
    IF ~(i <= Len(s) /\ s[i] = 34) THEN ParseFail
    ELSE LET k == ScanString(s, i + 1, <<>>)
         IN  IF ~k.ok \/ k.i > Len(s) \/ s[k.i] # 58 THEN ParseFail
             ELSE LET r == ParseValue(s, k.i + 1)
                  IN  IF ~r.ok \/ r.i > Len(s) THEN ParseFail
                      ELSE IF s[r.i] = 44
                          THEN ParseMembers(s, r.i + 1, PutMember(acc, k.v, r.v))
                      ELSE IF s[r.i] = 125
                          THEN ParseOk(JObj(PutMember(acc, k.v, r.v)), r.i + 1)
                      ELSE ParseFail

\* JSON.parse(text): the value, or a SyntaxError (ok = FALSE).
JSONParse(s) ==
    LET r == ParseValue(s, 1)
    IN  IF r.ok /\ r.i = Len(s) + 1 THEN [ok |-> TRUE, v |-> r.v] ELSE ParseFail

(***************************************************************************)
(* UTF-8: Buffer.from(str, 'utf-8') and buf.toString('utf-8').             *)
(***************************************************************************)
Utf8Char(c) ==
    IF c < 128 THEN <<c>>
    ELSE IF c < 2048 THEN <<192 + (c \div 64), 128 + (c % 64)>>
    ELSE <<224 + (c \div 4096), 128 + ((c \div 64) % 64), 128 + (c % 64)>>

Utf8Encode(s) == Flatten([i \in 1..Len(s) |-> Utf8Char(s[i])])

IsCont(b) == b >= 128 /\ b < 192

\* Ill-formed input decodes to U+FFFD, as Node does.
RECURSIVE Utf8Decode(_)
Utf8Decode(b) ==
    IF b = <<>> THEN <<>>
    ELSE IF b[1] < 128 THEN <<b[1]>> \o Utf8Decode(Tail(b))
    ELSE IF b[1] >= 194 /\ b[1] < 224 /\ Len(b) >= 2 /\ IsCont(b[2])
        THEN <<(b[1] - 192) * 64 + (b[2] - 128)>> \o Utf8Decode(SubSeq(b, 3, Len(b)))
    ELSE IF b[1] >= 224 /\ b[1] < 240 /\ Len(b) >= 3 /\ IsCont(b[2]) /\ IsCont(b[3])
        THEN <<(b[1] - 224) * 4096 + (b[2] - 128) * 64 + (b[3] - 128)>>
             \o Utf8Decode(SubSeq(b, 4, Len(b)))
    ELSE <<65533>> \o Utf8Decode(Tail(b))

(***************************************************************************)
(* Buffer integer accessors (offsets are 0-based as in the source).        *)
(***************************************************************************)
UInt16Bytes(n) == <<n % 256, (n \div 256) % 256>>
UInt32Bytes(n) ==
    <<n % 256, (n \div 256) % 256, (n \div 65536) % 256, (n \div 16777216) % 256>>
readUInt16LE(buffer, off) == buffer[off + 1] + 256 * buffer[off + 2]
readUInt32LE(buffer, off) ==
    buffer[off + 1] + 256 * buffer[off + 2] + 65536 * buffer[off + 3]
    + 16777216 * buffer[off + 4]

(***************************************************************************)
(* encodeMessage(signalType, payload), with the clock reading `now`        *)
(* (Math.floor(Date.now() / 1000)) made explicit.  The result is the       *)
(* Buffer, or threw = TRUE when the call throws: JSON.stringify(undefined) *)
(* is undefined and Buffer.from(undefined) is a TypeError; writeUInt16LE   *)
(* of a value outside 0..65535 is a RangeError.                            *)
(***************************************************************************)
EncodeThrew == [threw |-> TRUE, buf |-> <<>>]

\* A slip: the code is written high byte first.
SignalFieldBigEndian(signalType) == <<(signalType \div 256) % 256, signalType % 256>>

\* header.writeUInt16LE(signalType, 0)
SignalField(signalType) == UInt16Bytes(signalType)

\* A slip: the length of the string in characters, not of the buffer in bytes.
LengthFieldOfString(payloadStr, payloadBuf) == UInt32Bytes(Len(payloadStr))

\* header.writeUInt32LE(payloadBuf.length, 4)
LengthField(payloadStr, payloadBuf) == UInt32Bytes(Len(payloadBuf))

encodeMessage(signalType, payload, now) ==
    IF payload.t = "undefined" THEN EncodeThrew
    ELSE IF signalType \notin 0..65535 THEN EncodeThrew
    ELSE LET payloadStr == JSONStringify(payload)
             payloadBuf == Utf8Encode(payloadStr)
             header == SignalField(signalType)
                       \o UInt16Bytes(PROTOCOL_VERSION)
                       \o LengthField(payloadStr, payloadBuf)
                       \o UInt32Bytes(now)
         IN  [threw |-> FALSE, buf |-> header \o payloadBuf]

(***************************************************************************)
(* decodeMessage(buffer): a BaNanoMessage, or null (ok = FALSE).           *)
(***************************************************************************)
NoMessage == [ok |-> FALSE]

\* buffer.subarray(HEADER_SIZE, HEADER_SIZE + payloadLen); subarray clamps its
\* end to the length of the buffer.
PayloadBytes(buffer, payloadLen) ==
    SubSeq(buffer, HEADER_SIZE + 1,
           IF HEADER_SIZE + payloadLen <= Len(buffer) THEN HEADER_SIZE + payloadLen
           ELSE Len(buffer))

\* A slip: the header's own bytes are forgotten in the length check.
TruncatedIgnoresHeader(buffer, payloadLen) == Len(buffer) < payloadLen

\* if (buffer.length < HEADER_SIZE + payloadLen)
Truncated(buffer, payloadLen) == Len(buffer) < HEADER_SIZE + payloadLen

\* A slip: the catch clause swallows the SyntaxError and the payload stays null.
decodeMessageSwallowsError(buffer) ==
    IF Len(buffer) < HEADER_SIZE THEN NoMessage
    ELSE LET signalType == readUInt16LE(buffer, 0)
             version == readUInt16LE(buffer, 2)
             payloadLen == readUInt32LE(buffer, 4)
             timestamp == readUInt32LE(buffer, 8)
         IN  IF Truncated(buffer, payloadLen) THEN NoMessage
             ELSE LET parsed ==
                          IF payloadLen > 0
                          THEN JSONParse(Utf8Decode(PayloadBytes(buffer, payloadLen)))
                          ELSE [ok |-> TRUE, v |-> JNull]
                  IN  [ok |-> TRUE, signalType |-> signalType, version |-> version,
                       timestamp |-> timestamp,
                       payload |-> IF parsed.ok THEN parsed.v ELSE JNull]

decodeMessage(buffer) ==
    IF Len(buffer) < HEADER_SIZE THEN NoMessage
    ELSE LET signalType == readUInt16LE(buffer, 0)
             version == readUInt16LE(buffer, 2)
             payloadLen == readUInt32LE(buffer, 4)
             timestamp == readUInt32LE(buffer, 8)
         IN  IF Truncated(buffer, payloadLen) THEN NoMessage
             ELSE LET parsed ==
                          IF payloadLen > 0
                          THEN JSONParse(Utf8Decode(PayloadBytes(buffer, payloadLen)))
                          ELSE [ok |-> TRUE, v |-> JNull]
                  IN  IF ~parsed.ok THEN NoMessage
                      ELSE [ok |-> TRUE, signalType |-> signalType, version |-> version,
                            timestamp |-> timestamp, payload |-> parsed.v]

(***************************************************************************)
(* State.                                                                  *)
(***************************************************************************)
VARIABLES
    cpc,            \* codec run: "init", "encoded", "decoded"
    cin,            \* codec run: the arguments [signal, payload, now]
    cbuf,           \* codec run: result of encodeMessage
    cmsg,           \* codec run: result of decodeMessage
    socket,         \* InterlockSocket.socket: 0 (null) or the index of a handle
    handles,        \* the dgram sockets created so far, one per start() call
    handlers,       \* InterlockSocket.handlers: signal code -> handler ids in order
    globalHandlers, \* InterlockSocket.globalHandlers: handler ids in order
    peers,          \* InterlockSocket.config.peers
    crashed,        \* the process ended on an unhandled promise rejection
    last,           \* what the latest call or received datagram did
    defaultWhitelist, \* the array DEFAULT_CONFIG.whitelist of tumbler.ts
    tumblers,       \* the Tumbler instances: their config and rejectedCount
    misses,         \* per Tumbler: isAllowed calls that returned false since
                    \* construction or the latest resetStats()
    tlast,          \* what the latest Tumbler call did
    store,          \* createRateLimiter: the in-memory store, key -> entry
    clock,          \* Date.now(), in units of the model
    hist,           \* the requests the rate limiter has seen, with what it did
    pending,        \* passed requests whose response has not finished
    res             \* one request under withTimeout / createRequestTimeout

codecVars == <<cpc, cin, cbuf, cmsg>>
socketVars == <<socket, handles, handlers, globalHandlers, peers, crashed, last>>
tumblerVars == <<defaultWhitelist, tumblers, misses, tlast>>
httpVars == <<store, clock, hist, pending, res>>
vars == <<cpc, cin, cbuf, cmsg, socket, handles, handlers, globalHandlers, peers,
          crashed, last, defaultWhitelist, tumblers, misses, tlast,
          store, clock, hist, pending, res>>

\* The signal codes handlers are registered for in this model.
Codes == {BUILD_STARTED, INSPECTION_REQUESTED}

(***************************************************************************)
(* HTTP middleware (middleware.ts).  No request has been made: the rate    *)
(* limiter's store is empty and no request is under a timeout.             *)
(***************************************************************************)
Keys == {"10.0.0.1", "10.0.0.2"}
NoEntry == [present |-> FALSE, count |-> 0, resetTime |-> 0]
NoOptions == [windowMs |-> 0, max |-> 0, skipFailedRequests |-> FALSE]

\* The requests in flight through a timeout wrapper, and the response object
\* of a request that has not arrived.
Requests == {1, 2}
NoResponse == [pc |-> "none"]

HttpIdle ==
    /\ store = [opts |-> NoOptions, entries |-> [k \in Keys |-> NoEntry]]
    /\ clock = 0
    /\ hist = <<>>
    /\ pending = <<>>
    /\ res = [q \in Requests |-> NoResponse]

(***************************************************************************)
(* Tumbler (tumbler.ts): the whitelist filter.  config.whitelist is a      *)
(* reference to an array.  The constructor copies the fields of            *)
(* DEFAULT_CONFIG and of its argument, not the arrays they refer to: a     *)
(* Tumbler built without a whitelist refers to the array of DEFAULT_CONFIG *)
(* itself (shared = TRUE) until deny() gives it an array of its own.       *)
(***************************************************************************)
MaxMisses == 2

\* DEFAULT_CONFIG.whitelist as the module is loaded.
DEFAULT_WHITELIST ==
    <<BUILD_STARTED, INSPECTION_REQUESTED, PRE_INSPECTION_REQUESTED,
      SKILL_VALIDATION_REQUESTED, PROMPT_VALIDATION_REQUESTED>>

\* The whitelist main() passes to its Tumbler, an array literal of its own.
MainWhitelist ==
    <<BUILD_STARTED, INSPECTION_REQUESTED, PRE_INSPECTION_REQUESTED,
      SKILL_VALIDATION_REQUESTED, PROMPT_VALIDATION_REQUESTED>>

\* new Tumbler(config): { ...DEFAULT_CONFIG, ...config }, rejectedCount = 0
NewTumbler(config) ==
    [shared |-> ~config.hasWhitelist,
     whitelist |-> IF config.hasWhitelist THEN config.whitelist ELSE <<>>,
     logRejected |-> IF config.hasLogRejected THEN config.logRejected ELSE FALSE,
     rejectedCount |-> 0]

\* The instances: the one a caller constructs (main() names it tumbler) and
\* the exported defaultTumbler.
Tumblers == {"tumbler", "defaultTumbler"}

MainConfig ==
    [hasWhitelist |-> TRUE, whitelist |-> MainWhitelist,
     hasLogRejected |-> TRUE, logRejected |-> TRUE]

NoConfig ==
    [hasWhitelist |-> FALSE, whitelist |-> <<>>,
     hasLogRejected |-> FALSE, logRejected |-> FALSE]

\* The state once tumbler.ts is loaded and main() has constructed its Tumbler.
TumblersConstructed ==
    /\ defaultWhitelist = DEFAULT_WHITELIST
    /\ tumblers = [i \in Tumblers |->
                      IF i = "tumbler" THEN NewTumbler(MainConfig)
                      ELSE NewTumbler(NoConfig)]
    /\ misses = [i \in Tumblers |-> 0]
    /\ tlast = [op |-> "none"]

\* this.config.whitelist of instance i
Whitelist(i) ==
    IF tumblers[i].shared THEN defaultWhitelist ELSE tumblers[i].whitelist

\* Array.prototype.includes
includes(array, x) == \E k \in 1..Len(array) : array[k] = x

\* A slip: rejections are counted whether or not they are logged.
CountRejectedAlways(allowed, logRejected, rejectedCount) ==
    IF ~allowed THEN rejectedCount + 1 ELSE rejectedCount

\* if (!allowed && this.config.logRejected) this.rejectedCount++
CountRejected(allowed, logRejected, rejectedCount) ==
    IF ~allowed /\ logRejected THEN rejectedCount + 1 ELSE rejectedCount

\* A slip: the code is pushed without looking for it first.
allowAlways(whitelist, signalType) == Append(whitelist, signalType)

\* allow(): the array after the call (the push is in place)
allow(whitelist, signalType) ==
    IF ~includes(whitelist, signalType) THEN Append(whitelist, signalType)
    ELSE whitelist

RECURSIVE RemoveFirst(_, _)
RemoveFirst(array, x) ==
    IF array = <<>> THEN <<>>
    ELSE IF Head(array) = x THEN Tail(array)
    ELSE <<Head(array)>> \o RemoveFirst(Tail(array), x)

\* A slip: only the first occurrence is removed (indexOf and splice).
denyFirstOnly(whitelist, signalType) == RemoveFirst(whitelist, signalType)

\* deny(): the new array whitelist.filter(s => s !== signalType)
deny(whitelist, signalType) == SelectSeq(whitelist, LAMBDA s : s /= signalType)

\* A slip: the array itself is handed out.
getWhitelistByReference(i) == [alias |-> TRUE, array |-> Whitelist(i)]

\* getWhitelist(): [...this.config.whitelist], a new array
getWhitelist(i) == [alias |-> FALSE, array |-> Whitelist(i)]

\* getStats()
getStats(i) ==
    [whitelistSize |-> Len(Whitelist(i)), rejectedCount |-> tumblers[i].rejectedCount]

\* resetStats()
resetStats(t) == [t EXCEPT !.rejectedCount = 0]

\* The codes the Tumbler is asked about: one of the default whitelist, one
\* outside it, and one that is no signal of the protocol.
TumblerCodes == {BUILD_STARTED, INSPECTION_PASSED, 255}

\* Writing array a through the reference instance i holds.
WriteThrough(i, a) ==
    IF tumblers[i].shared
    THEN /\ defaultWhitelist' = a
         /\ UNCHANGED tumblers
    ELSE /\ tumblers' = [tumblers EXCEPT ![i].whitelist = a]
         /\ UNCHANGED defaultWhitelist

IsAllowed(i, signalType) ==
    LET allowed == includes(Whitelist(i), signalType)
    IN  /\ misses[i] < MaxMisses
        /\ tumblers' = [tumblers EXCEPT ![i].rejectedCount =
                           CountRejected(allowed, tumblers[i].logRejected, @)]
        /\ misses' = [misses EXCEPT ![i] = IF allowed THEN @ ELSE @ + 1]
        /\ tlast' = [op |-> "isAllowed", inst |-> i, code |-> signalType,
                     ret |-> allowed]
        /\ UNCHANGED <<defaultWhitelist, codecVars, socketVars, httpVars>>

Allow(i, signalType) ==
    /\ WriteThrough(i, allow(Whitelist(i), signalType))
    /\ tlast' = [op |-> "allow", inst |-> i, code |-> signalType,
                 before |-> Whitelist(i),
                 again |-> /\ tlast.op = "allow" /\ tlast.inst = i
                           /\ tlast.code = signalType]
    /\ UNCHANGED <<misses, codecVars, socketVars, httpVars>>

Deny(i, signalType) ==
    /\ tumblers' = [tumblers EXCEPT ![i].shared = FALSE,
                                    ![i].whitelist = deny(Whitelist(i), signalType)]
    /\ tlast' = [op |-> "deny", inst |-> i, code |-> signalType,
                 before |-> Whitelist(i),
                 again |-> /\ tlast.op = "deny" /\ tlast.inst = i
                           /\ tlast.code = signalType]
    /\ UNCHANGED <<defaultWhitelist, misses, codecVars, socketVars, httpVars>>

GetWhitelist(i) ==
    /\ tlast' = [op |-> "getWhitelist", inst |-> i, ret |-> getWhitelist(i)]
    /\ UNCHANGED <<defaultWhitelist, tumblers, misses, codecVars, socketVars, httpVars>>

\* What the caller may do to the array it got: push, pop, overwrite.
Mutations == {"push", "pop", "overwrite"}

Mutated(array, how) ==
    IF how = "push" THEN Append(array, 255)
    ELSE IF array = <<>> THEN array
    ELSE IF how = "pop" THEN SubSeq(array, 1, Len(array) - 1)
    ELSE [array EXCEPT ![1] = 255]

\* The caller changes the array getWhitelist() returned to it.
MutateReturned ==
    /\ tlast.op = "getWhitelist"
    /\ \E how \in Mutations :
          LET i == tlast.inst
              a == Mutated(tlast.ret.array, how)
          IN  /\ a /= tlast.ret.array
              /\ IF tlast.ret.alias THEN WriteThrough(i, a)
                 ELSE UNCHANGED <<defaultWhitelist, tumblers>>
              /\ tlast' = [op |-> "mutated", inst |-> i,
                           ret |-> [alias |-> tlast.ret.alias, array |-> a],
                           before |-> Whitelist(i), stats |-> getStats(i)]
    /\ UNCHANGED <<misses, codecVars, socketVars, httpVars>>

ResetStats(i) ==
    /\ tumblers' = [tumblers EXCEPT ![i] = resetStats(@)]
    /\ misses' = [misses EXCEPT ![i] = 0]
    /\ tlast' = [op |-> "resetStats", inst |-> i, before |-> Whitelist(i)]
    /\ UNCHANGED <<defaultWhitelist, codecVars, socketVars, httpVars>>

\* The whitelists a Tumbler is constructed with in main() and in the tests;
\* whitelist is number[], so a code may occur twice.
TumblerConfigs ==
    {MainConfig,
     NoConfig,
     [hasWhitelist |-> TRUE, whitelist |-> <<>>,
      hasLogRejected |-> TRUE, logRejected |-> TRUE],
     [hasWhitelist |-> TRUE, whitelist |-> <<BUILD_STARTED>>,
      hasLogRejected |-> TRUE, logRejected |-> FALSE],
     [hasWhitelist |-> TRUE, whitelist |-> <<BUILD_STARTED, 255, BUILD_STARTED>>,
      hasLogRejected |-> TRUE, logRejected |-> TRUE]}

(***************************************************************************)
(* The codec run: encode one message, decode the bytes.                    *)
(***************************************************************************)
SignalSamples == {0, 195, 255, 256, 65535, 65536}
ClockSamples == {0, 1700000000}

CodecInit ==
    /\ cpc = "init"
    /\ cin \in [signal : SignalSamples, payload : Payloads, now : ClockSamples]
    /\ cbuf = EncodeThrew
    /\ cmsg = NoMessage
    /\ socket = 0
    /\ handles = <<>>
    /\ handlers = [c \in Codes |-> <<>>]
    /\ globalHandlers = <<>>
    /\ peers = <<>>
    /\ crashed = FALSE
    /\ last = [op |-> "none"]
    /\ TumblersConstructed
    /\ HttpIdle

Encode ==
    /\ cpc = "init"
    /\ cbuf' = encodeMessage(cin.signal, cin.payload, cin.now)
    /\ cpc' = "encoded"
    /\ UNCHANGED <<cin, cmsg>>
    /\ UNCHANGED <<socketVars, tumblerVars, httpVars>>

Decode ==
    /\ cpc = "encoded"
    /\ ~cbuf.threw
    /\ cmsg' = decodeMessage(cbuf.buf)
    /\ cpc' = "decoded"
    /\ UNCHANGED <<cin, cbuf>>
    /\ UNCHANGED <<socketVars, tumblerVars, httpVars>>

CodecNext == Encode \/ Decode

CodecSpec == CodecInit /\ [][CodecNext]_vars

(***************************************************************************)
(* C1: for every signal code in 0..65535 and every JSON value p,           *)
(* decodeMessage(encodeMessage(s, p)) is a message (not null) whose        *)
(* signalType is s and whose payload equals p.                             *)
(***************************************************************************)
JsonSerializable(p) == p.t # "undefined"

C1_RoundTrip ==
    (cin.signal \in 0..65535 /\ JsonSerializable(cin.payload)) =>
        /\ cpc = "encoded" => ~cbuf.threw
        /\ cpc = "decoded" =>
              /\ cmsg.ok
              /\ cmsg.signalType = cin.signal
              /\ cmsg.payload = cin.payload

\* A payload with an escaped quote, a two-byte character and nesting went
\* through encode and decode.
C1_Witness ==
    /\ cpc = "decoded"
    /\ cin.signal = 65535
    /\ cin.payload = JObj(<< <<KeyK, JStr(<<233>>)>>, <<KeyQ, JArr(<<JNull>>)>> >>)
    /\ cmsg.ok

(***************************************************************************)
(* InterlockSocket: the dgram sockets and the start() promises.            *)
(* A handle is one dgram socket made by one start() call:                  *)
(*   st      "binding" (bind() called, no event yet), "listening" (the     *)
(*           'listening' event was emitted), "failed" (the bind failed);   *)
(*   closes  how often close() was called on it;                           *)
(*   promise the promise start() returned;                                 *)
(*   binds   how often bind() was called on it;                            *)
(*   err     an 'error' event was emitted after it began listening.        *)
(***************************************************************************)
NewHandle ==
    [st |-> "binding", closes |-> 0, promise |-> "pending", binds |-> 1, err |-> FALSE]

\* resolve() and reject() settle a promise once; later calls do nothing.
Settle(promise, to) == IF promise = "pending" THEN to ELSE promise

\* this.socket.on('listening', () => { console.log(...); resolve(); })
OnListening(h) == [h EXCEPT !.promise = Settle(@, "resolved")]

\* A slip: the error is logged and the promise left alone.
OnErrorLogOnly(h) == h

\* this.socket.on('error', (err) => { console.error(...); reject(err); })
OnError(h) == [h EXCEPT !.promise = Settle(@, "rejected")]

Open(i) == handles[i].closes = 0

\* start()
Start ==
    /\ ~crashed
    /\ Len(handles) < MaxStarts
    /\ handles' = Append(handles, NewHandle)
    /\ socket' = Len(handles) + 1
    /\ last' = [op |-> "start"]
    /\ UNCHANGED <<handlers, globalHandlers, peers, crashed, codecVars, tumblerVars, httpVars>>

\* The OS binds the port: 'listening'.  The port is free of this process's
\* other sockets (no reuseAddr).  A socket closed while binding emits nothing.
BindOk ==
    \E i \in 1..Len(handles) :
        /\ ~crashed
        /\ handles[i].st = "binding"
        /\ Open(i)
        /\ \A j \in 1..Len(handles) : ~(j # i /\ handles[j].st = "listening" /\ Open(j))
        /\ handles' = [handles EXCEPT ![i] = OnListening([@ EXCEPT !.st = "listening"])]
        /\ UNCHANGED <<socket, handlers, globalHandlers, peers, crashed, last, codecVars, tumblerVars, httpVars>>

\* The bind fails (port in use or unavailable): 'error'.
BindFail ==
    \E i \in 1..Len(handles) :
        /\ ~crashed
        /\ handles[i].st = "binding"
        /\ Open(i)
        /\ handles' = [handles EXCEPT ![i] = OnError([@ EXCEPT !.st = "failed"])]
        /\ UNCHANGED <<socket, handlers, globalHandlers, peers, crashed, last, codecVars, tumblerVars, httpVars>>

\* A fatal error on a listening socket: 'error'.  dgram leaves the handle open.
SocketError ==
    \E i \in 1..Len(handles) :
        /\ ~crashed
        /\ handles[i].st = "listening"
        /\ Open(i)
        /\ handles' = [handles EXCEPT ![i] = OnError([@ EXCEPT !.err = TRUE])]
        /\ UNCHANGED <<socket, handlers, globalHandlers, peers, crashed, last, codecVars, tumblerVars, httpVars>>

\* A slip: close() without forgetting the socket.
stopKeepsSocket(sock, hs) ==
    IF sock # 0
    THEN [socket |-> sock, handles |-> [hs EXCEPT ![sock].closes = @ + 1]]
    ELSE [socket |-> sock, handles |-> hs]

\* stop(): the new this.socket and the handles
stop(sock, hs) ==
    IF sock # 0
    THEN [socket |-> 0, handles |-> [hs EXCEPT ![sock].closes = @ + 1]]
    ELSE [socket |-> sock, handles |-> hs]

Stop ==
    /\ ~crashed
    /\ LET r == stop(socket, handles)
       IN  /\ socket' = r.socket
           /\ handles' = r.handles
    /\ last' = [op |-> "stop", had |-> socket]
    /\ UNCHANGED <<handlers, globalHandlers, peers, crashed, codecVars, tumblerVars, httpVars>>

(***************************************************************************)
(* The handler registry.  A handler is known by the number of its          *)
(* registration: the k-th call of on()/onAny() registers handler k.        *)
(***************************************************************************)
RECURSIVE SumLen(_, _)
SumLen(f, S) ==
    IF S = {} THEN 0
    ELSE LET c == CHOOSE x \in S : TRUE IN Len(f[c]) + SumLen(f, S \ {c})

NumRegistered == SumLen(handlers, DOMAIN handlers) + Len(globalHandlers)

\* on(signalType, handler)
On ==
    \E signalType \in Codes :
        /\ ~crashed
        /\ NumRegistered < MaxHandlers
        /\ handlers' = [handlers EXCEPT ![signalType] = Append(@, NumRegistered + 1)]
        /\ last' = [op |-> "on"]
        /\ UNCHANGED <<socket, handles, globalHandlers, peers, crashed, codecVars, tumblerVars, httpVars>>

\* onAny(handler)
OnAny ==
    /\ ~crashed
    /\ NumRegistered < MaxHandlers
    /\ globalHandlers' = Append(globalHandlers, NumRegistered + 1)
    /\ last' = [op |-> "onAny"]
    /\ UNCHANGED <<socket, handles, handlers, peers, crashed, codecVars, tumblerVars, httpVars>>

(***************************************************************************)
(* handleMessage(buffer, rinfo).  What a handler does when called is an    *)
(* input: it returns, it throws, or (an async handler) it returns a        *)
(* promise that rejects.  The result lists the handlers called, in order,  *)
(* whether an exception was caught and whether a rejection was left        *)
(* unhandled (no catch clause sees it).                                    *)
(***************************************************************************)
Outcomes == {"returns", "throws", "rejects"}
NoCalls == [calls |-> <<>>, caught |-> FALSE, escaped |-> FALSE]

\* this.handlers.get(message.signalType) || []
SignalHandlers(signalType) ==
    IF signalType \in DOMAIN handlers THEN handlers[signalType] ELSE <<>>

\* try { handler(message, rinfo); } catch (error) { console.error(...); }
Invoke(acc, h, outcome) ==
    [calls |-> Append(acc.calls, h),
     caught |-> acc.caught \/ outcome = "throws",
     escaped |-> acc.escaped \/ outcome = "rejects"]

\* for (const handler of list) { ... }
RECURSIVE ForEachHandler(_, _, _)
ForEachHandler(list, oc, acc) ==
    IF list = <<>> THEN acc
    ELSE ForEachHandler(Tail(list), oc, Invoke(acc, Head(list), oc[Head(list)]))

\* A slip: the global handlers first.
DispatchGlobalFirst(message, oc) ==
    IF ~message.ok THEN NoCalls
    ELSE ForEachHandler(SignalHandlers(message.signalType), oc,
                        ForEachHandler(globalHandlers, oc, NoCalls))

\* A slip: an undecodable datagram still reaches the global handlers.
DispatchNoNullCheck(message, oc) ==
    ForEachHandler(globalHandlers, oc,
        IF ~message.ok THEN NoCalls
        ELSE ForEachHandler(SignalHandlers(message.signalType), oc, NoCalls))

\* Not the code: a dispatch that asks the Tumbler main() constructed first.
DispatchWhitelisted(message, oc) ==
    IF ~message.ok THEN NoCalls
    ELSE IF ~includes(Whitelist("tumbler"), message.signalType) THEN NoCalls
    ELSE ForEachHandler(globalHandlers, oc,
                        ForEachHandler(SignalHandlers(message.signalType), oc, NoCalls))

\* handleMessage after the decode: if (!message) return; then the handlers
\* of the signal, then the global handlers.
Dispatch(message, oc) ==
    IF ~message.ok THEN NoCalls
    ELSE ForEachHandler(globalHandlers, oc,
                        ForEachHandler(SignalHandlers(message.signalType), oc, NoCalls))

\* The datagrams that arrive: two well-formed ones, one with an empty body,
\* one too short, one truncated, one whose body is not JSON ("{x").
RawHeader(signalType, payloadLen, now) ==
    UInt16Bytes(signalType) \o UInt16Bytes(PROTOCOL_VERSION) \o UInt32Bytes(payloadLen)
    \o UInt32Bytes(now)
DgBuild == encodeMessage(BUILD_STARTED, JObj(<< <<KeyK, JNum(7)>> >>), 1700000000).buf
DgInspect == encodeMessage(INSPECTION_REQUESTED, JStr(<<233>>), 1700000000).buf
DgEmptyBody == RawHeader(BUILD_STARTED, 0, 0)
DgTooShort == SubSeq(DgBuild, 1, HEADER_SIZE - 1)
DgTruncated == SubSeq(DgBuild, 1, Len(DgBuild) - 1)
DgBadJson == RawHeader(BUILD_STARTED, 2, 0) \o <<123, 120>>
ValidDatagrams == {DgBuild, DgInspect, DgEmptyBody}
InvalidDatagrams == {DgTooShort, DgTruncated, DgBadJson}
Datagrams == ValidDatagrams \cup InvalidDatagrams

\* decodeMessage on each datagram that arrives, computed once.
Decoded == [d \in Datagrams |-> decodeMessage(d)]

\* The handlers whose behaviour matters for one message.
Range(f) == {f[i] : i \in DOMAIN f}
Callable(message) ==
    Range(globalHandlers)
    \cup (IF message.ok THEN Range(SignalHandlers(message.signalType)) ELSE {})

\* socket.on('message', (msg, rinfo) => { this.handleMessage(msg, rinfo); })
\* and handleMessage's const message = decodeMessage(buffer),
\* on any socket this object made that is still listening.  A rejection no
\* one handles ends the process or not, as the runtime is configured.
Receive ==
    \E i \in 1..Len(handles), d \in Datagrams :
        /\ ~crashed
        /\ handles[i].st = "listening"
        /\ Open(i)
        /\ LET message == Decoded[d]
           IN  \E oc \in [Callable(message) -> Outcomes] :
                   LET r == Dispatch(message, oc)
                   IN  /\ last' = [op |-> "recv", dgram |-> d, nreg |-> NumRegistered,
                                   calls |-> r.calls, caught |-> r.caught,
                                   escaped |-> r.escaped]
                       /\ crashed' \in (IF r.escaped THEN {TRUE, FALSE} ELSE {FALSE})
        /\ UNCHANGED <<socket, handles, handlers, globalHandlers, peers, codecVars, tumblerVars, httpVars>>

(***************************************************************************)
(* send / broadcast / sendToPeer.  A write is one call of the dgram        *)
(* socket's send(message, port, '127.0.0.1', cb); that call throws         *)
(* (ERR_SOCKET_BAD_PORT) when the port is not in 1..65535.                 *)
(***************************************************************************)
ValidPort(port) == port \in 1..65535

\* send(signalType, payload, port): the ports written to, and whether it threw
send(signalType, payload, port, now) ==
    IF socket = 0 THEN [writes |-> <<>>, threw |-> FALSE]
    ELSE LET message == encodeMessage(signalType, payload, now)
         IN  IF message.threw \/ ~ValidPort(port)
             THEN [writes |-> <<>>, threw |-> TRUE]
             ELSE [writes |-> <<port>>, threw |-> FALSE]

\* for (const peer of this.config.peers) { this.send(signalType, payload, peer.port); }
RECURSIVE BroadcastLoop(_, _, _, _, _)
BroadcastLoop(list, signalType, payload, now, acc) ==
    IF list = <<>> THEN acc
    ELSE LET r == send(signalType, payload, Head(list).port, now)
             next == [attempted |-> Append(acc.attempted, Head(list).port),
                      writes |-> acc.writes \o r.writes,
                      threw |-> r.threw]
         IN  IF r.threw THEN next
             ELSE BroadcastLoop(Tail(list), signalType, payload, now, next)

broadcast(signalType, payload, now) ==
    BroadcastLoop(peers, signalType, payload, now,
                  [attempted |-> <<>>, writes |-> <<>>, threw |-> FALSE])

\* this.config.peers.find(p => p.name === peerName): its index, 0 when none
FindPeer(peerName) ==
    LET found == {i \in 1..Len(peers) : peers[i].name = peerName}
    IN  IF found = {} THEN 0 ELSE CHOOSE i \in found : \A j \in found : i <= j

sendToPeer(peerName, signalType, payload, now) ==
    LET k == FindPeer(peerName)
    IN  IF k = 0 THEN [ret |-> "false", writes |-> <<>>, threw |-> FALSE]
        ELSE LET r == send(signalType, payload, peers[k].port, now)
             IN  [ret |-> IF r.threw THEN "none" ELSE "true",
                  writes |-> r.writes, threw |-> r.threw]

PeerNames == {"experience-layer", "a", "unknown"}
SendPayloads == {JObj(<< <<KeyK, JNum(7)>> >>)}
SendClocks == {1700000000}
HandleState == IF socket = 0 THEN "none" ELSE handles[socket].st

SendToPeer ==
    \E peerName \in PeerNames, payload \in SendPayloads, now \in SendClocks :
        /\ ~crashed
        /\ LET r == sendToPeer(peerName, INSPECTION_PASSED, payload, now)
           IN  last' = [op |-> "sendToPeer", name |-> peerName, ret |-> r.ret,
                        writes |-> r.writes, threw |-> r.threw, hst |-> HandleState]
        /\ UNCHANGED <<socket, handles, handlers, globalHandlers, peers, crashed, codecVars, tumblerVars, httpVars>>

Broadcast ==
    \E payload \in SendPayloads, now \in SendClocks :
        /\ ~crashed
        /\ LET r == broadcast(INSPECTION_PASSED, payload, now)
           IN  last' = [op |-> "broadcast", attempted |-> r.attempted,
                        writes |-> r.writes, threw |-> r.threw, hst |-> HandleState]
        /\ UNCHANGED <<socket, handles, handlers, globalHandlers, peers, crashed, codecVars, tumblerVars, httpVars>>

(***************************************************************************)
(* The socket specification.  The peer directory is the configuration the  *)
(* object was constructed with; the configuration file is not validated.   *)
(***************************************************************************)
PeerConfigs ==
    { << [name |-> "a", port |-> 3031],
         [name |-> "experience-layer", port |-> 0],
         [name |-> "c", port |-> 3037] >>,
      << [name |-> "experience-layer", port |-> 3035],
         [name |-> "c", port |-> 3037] >> }

Init ==
    /\ cpc = "off"
    /\ cin = [signal |-> 0, payload |-> JNull, now |-> 0]
    /\ cbuf = EncodeThrew
    /\ cmsg = NoMessage
    /\ socket = 0
    /\ handles = <<>>
    /\ handlers = [c \in Codes |-> <<>>]
    /\ globalHandlers = <<>>
    /\ peers \in PeerConfigs
    /\ crashed = FALSE
    /\ last = [op |-> "none"]
    /\ TumblersConstructed
    /\ HttpIdle

\* The socket's lifecycle and its sends.
Next ==
    \/ Start
    \/ BindOk
    \/ BindFail
    \/ SocketError
    \/ Stop
    \/ SendToPeer
    \/ Broadcast

Spec == Init /\ [][Next]_vars

\* Registration and dispatch on a started socket.
DispatchNext ==
    \/ Start
    \/ BindOk
    \/ On
    \/ OnAny
    \/ Receive

DispatchSpec == Init /\ [][DispatchNext]_vars

(***************************************************************************)
(* Dispatch order.                                                         *)
(***************************************************************************)
\* The handlers of `list` that were registered when n handlers existed.
Upto(list, n) == SelectSeq(list, LAMBDA h : h <= n)

ExpectedCalls(signalType, n) == Upto(SignalHandlers(signalType), n) \o Upto(globalHandlers, n)

LastDecoded == Decoded[last.dgram]

(***************************************************************************)
(* C2: for one received datagram of code X the handlers registered with    *)
(* on(X, ...) are called in registration order, then the handlers          *)
(* registered with onAny(...) in registration order, and no handler of     *)
(* another code is called.                                                 *)
(***************************************************************************)
C2_DispatchOrder ==
    (last.op = "recv" /\ LastDecoded.ok) =>
        last.calls = ExpectedCalls(LastDecoded.signalType, last.nreg)

\* on(BUILD_STARTED), onAny, on(BUILD_STARTED), then a BUILD_STARTED datagram:
\* handlers 1 and 3, then the global handler 2.
C2_Witness ==
    /\ last.op = "recv"
    /\ last.dgram = DgBuild
    /\ last.calls = <<1, 3, 2>>

(***************************************************************************)
(* C3: when a handler called for a received message fails (it throws, or   *)
(* an async handler rejects), every later handler of the code and every    *)
(* global handler still runs, the failure does not leave the dispatch      *)
(* boundary, and later datagrams are still dispatched.                     *)
(***************************************************************************)
C3_HandlerFailureContained ==
    /\ ~crashed
    /\ (last.op = "recv" /\ LastDecoded.ok) =>
           /\ last.calls = ExpectedCalls(LastDecoded.signalType, last.nreg)
           /\ ~last.escaped

(***************************************************************************)
(* C4: a datagram that fails to decode (too short, truncated, malformed    *)
(* JSON) reaches no handler, of a code or global, and the socket goes on   *)
(* receiving.                                                              *)
(***************************************************************************)
C4_UndecodableDropped ==
    (last.op = "recv" /\ ~LastDecoded.ok) =>
        /\ last.calls = <<>>
        /\ ~last.caught
        /\ ~last.escaped
        /\ ~crashed
        /\ ENABLED Receive

\* A body that is not JSON arrived while a handler of its code and a global
\* handler were registered.
C4_Witness ==
    /\ last.op = "recv"
    /\ last.dgram = DgBadJson
    /\ handlers[BUILD_STARTED] # <<>>
    /\ globalHandlers # <<>>
    /\ last.nreg = NumRegistered

(***************************************************************************)
(* C5: sendToPeer with a name that is not in the peer directory returns    *)
(* false and writes nothing; with a configured name it returns true and    *)
(* makes exactly one write, to that peer's configured port.                *)
(***************************************************************************)
C5_SendToPeer ==
    last.op = "sendToPeer" =>
        IF \E i \in 1..Len(peers) : peers[i].name = last.name
        THEN /\ last.ret = "true"
             /\ \E i \in 1..Len(peers) :
                    peers[i].name = last.name /\ last.writes = <<peers[i].port>>
        ELSE /\ last.ret = "false"
             /\ last.writes = <<>>

(***************************************************************************)
(* C6: broadcast attempts one send to every configured peer; a failing     *)
(* send to one peer (a synchronous exception included) does not stop the   *)
(* sends to the peers after it.                                            *)
(***************************************************************************)
C6_BroadcastReachesAll ==
    last.op = "broadcast" => last.attempted = [i \in 1..Len(peers) |-> peers[i].port]

(***************************************************************************)
(* C7: the promise of start() is resolved only once the socket listens;    *)
(* when the bind fails the promise is rejected; bind is called once per    *)
(* start() call.                                                           *)
(***************************************************************************)
C7_StartSettles ==
    \A i \in 1..Len(handles) :
        /\ handles[i].promise = "resolved" => handles[i].st = "listening"
        /\ handles[i].st = "failed" => handles[i].promise = "rejected"
        /\ handles[i].binds = 1

\* One start() resolved and one was rejected by a failed bind.
C7_Witness ==
    \E i, j \in 1..Len(handles) :
        /\ handles[i].st = "listening" /\ handles[i].promise = "resolved"
        /\ handles[j].st = "failed" /\ handles[j].promise = "rejected"

(***************************************************************************)
(* C8: stop() in any state, any number of times: it leaves this.socket     *)
(* null; it closes the socket it held once, from never closed to closed    *)
(* once, and touches no other; a stop() with no socket held changes        *)
(* nothing.                                                                *)
(***************************************************************************)
StopStep == last' # last /\ last'.op = "stop"

C8_StopClosesOnce ==
    [][StopStep =>
          /\ socket' = 0
          /\ socket = 0 => handles' = handles
          /\ socket # 0 => handles' = [handles EXCEPT ![socket].closes = 1]]_vars

\* A stop() that found no socket, after an earlier stop() closed one.
C8_Witness ==
    /\ last = [op |-> "stop", had |-> 0]
    /\ \E i \in 1..Len(handles) : handles[i].closes = 1

(***************************************************************************)
(* C9: the lifecycle is Unbound -> Starting -> Listening -> Stopped:       *)
(* start() takes effect only from Unbound, and a socket that is Listening  *)
(* or Stopped never becomes Starting again.                                *)
(***************************************************************************)
Lifecycle ==
    IF socket = 0 THEN (IF handles = <<>> THEN "Unbound" ELSE "Stopped")
    ELSE CASE handles[socket].st = "binding" -> "Starting"
           [] handles[socket].st = "listening" -> "Listening"
           [] handles[socket].st = "failed" -> "Failed"

C9_LifecycleOrder ==
    [][/\ Len(handles') > Len(handles) => Lifecycle = "Unbound"
       /\ Lifecycle \in {"Listening", "Stopped"} => Lifecycle' # "Starting"]_vars

(***************************************************************************)
(* C10: a fatal error on the Listening socket ends the Listening state in  *)
(* a way the owner can observe in state it can inspect: the result of      *)
(* start() or what the socket object reports (this.socket, getAddress()).  *)
(***************************************************************************)
OwnerView == <<socket, [i \in 1..Len(handles) |-> handles[i].promise],
               [i \in 1..Len(handles) |-> handles[i].closes]>>

C10_FatalErrorObservable ==
    [][(socket # 0 /\ handles[socket].st = "listening"
        /\ ~handles[socket].err /\ handles'[socket].err)
       => OwnerView' # OwnerView]_vars

(***************************************************************************)
(* Decoding received bytes: the buffer is whatever arrived on the wire.    *)
(***************************************************************************)
Prefixes(b) == {SubSeq(b, 1, n) : n \in 0..Len(b)}

\* Bodies as they may arrive: complete JSON texts, cut-off JSON texts, and
\* bytes that are no JSON at all.
RawBodies ==
    {<<>>,
     <<49, 50>>,                              \* 12
     <<110, 117, 108, 108>>,                  \* null
     <<123, 34, 107, 34, 58, 55, 125>>,       \* {"k":7}
     <<34, 195, 169, 34>>,                    \* "e-acute" in quotes
     <<123, 120>>,                            \* {x
     <<116, 114, 117>>,                       \* tru
     <<91, 49, 44>>,                          \* [1,
     <<34, 97>>,                              \* "a
     <<195>>}                                 \* a lone UTF-8 lead byte

DeclaredLens == {0, 1, 2, 3, 4, 7, 200, 70000}

RawBuffers ==
    {RawHeader(s, n, 0) \o b : s \in {BUILD_STARTED, 65535}, n \in DeclaredLens,
                               b \in RawBodies}
    \cup Prefixes(DgBuild)

RawInit ==
    /\ cpc = "raw"
    /\ cin = [signal |-> 0, payload |-> JNull, now |-> 0]
    /\ cbuf \in [threw : {FALSE}, buf : RawBuffers]
    /\ cmsg = NoMessage
    /\ socket = 0
    /\ handles = <<>>
    /\ handlers = [c \in Codes |-> <<>>]
    /\ globalHandlers = <<>>
    /\ peers = <<>>
    /\ crashed = FALSE
    /\ last = [op |-> "none"]
    /\ TumblersConstructed
    /\ HttpIdle

DecodeRaw ==
    /\ cpc = "raw"
    /\ cmsg' = decodeMessage(cbuf.buf)
    /\ cpc' = "rawdecoded"
    /\ UNCHANGED <<cin, cbuf>>
    /\ UNCHANGED <<socketVars, tumblerVars, httpVars>>

RawNext == DecodeRaw

RawSpec == RawInit /\ [][RawNext]_vars

\* The body length bytes [4,8) of a buffer of at least 8 bytes, little-endian.
DeclaredLength(b) == b[5] + 256 * b[6] + 65536 * b[7] + 16777216 * b[8]

\* The bytes after the header that the header accounts for.
DeclaredBody(b) ==
    SubSeq(b, HEADER_SIZE + 1, HEADER_SIZE + DeclaredLength(b))

\* C17: decodeMessage returns no Message for every buffer shorter than 12
\* bytes, and for every buffer of at least 12 bytes whose declared body length
\* exceeds the number of bytes that follow the header.
C17_ShortBufferRejected ==
    cpc = "rawdecoded" =>
        LET b == cbuf.buf
        IN  /\ Len(b) < 12 => ~cmsg.ok
            /\ (Len(b) >= 12 /\ DeclaredLength(b) > Len(b) - 12) => ~cmsg.ok

\* A truncated buffer whose available body bytes alone would parse has been
\* refused.
C17_Witness ==
    /\ cpc = "rawdecoded"
    /\ cbuf.buf = RawHeader(BUILD_STARTED, 3, 0) \o <<49, 50>>
    /\ ~cmsg.ok

\* C18: a buffer with a complete header, a declared body length greater than 0
\* and a body that is not valid JSON yields no Message; whenever a Message is
\* returned for a non-empty body, its payload is the value of the whole body.
C18_BadJsonRejected ==
    cpc = "rawdecoded" =>
        LET b == cbuf.buf
        IN  (Len(b) >= 12 /\ DeclaredLength(b) > 0
                /\ DeclaredLength(b) <= Len(b) - 12) =>
                LET parsed == JSONParse(Utf8Decode(DeclaredBody(b)))
                IN  /\ ~parsed.ok => ~cmsg.ok
                    /\ cmsg.ok => parsed.ok /\ cmsg.payload = parsed.v
                    /\ DeclaredBody(b) \in {<<123, 120>>, <<116, 114, 117>>,
                                             <<91, 49, 44>>, <<34, 97>>, <<195>>,
                                             <<123>>, <<34>>, <<110>>}
                           => ~cmsg.ok

C18_Witness ==
    /\ cpc = "rawdecoded"
    /\ cbuf.buf = RawHeader(BUILD_STARTED, 3, 0) \o <<91, 49, 44>>
    /\ ~cmsg.ok

\* C19: encodeMessage of an absent (undefined) or empty (null) payload returns
\* exactly 12 bytes whose body length field is 0, and decoding them gives a
\* Message with a null payload.
C19_EmptyPayloadEmptyBody ==
    (cin.payload \in {JUndefined, JNull} /\ cin.signal \in 0..65535) =>
        /\ cpc \in {"encoded", "decoded"} =>
              /\ ~cbuf.threw
              /\ Len(cbuf.buf) = 12
              /\ DeclaredLength(cbuf.buf) = 0
        /\ cpc = "decoded" => cmsg.ok /\ cmsg.payload = JNull

\* C20: for a signal code in 0..65535, the bytes encodeMessage returns are a
\* 12-byte header followed by the body and nothing else: bytes [0,2) are the
\* code little-endian, bytes [2,4) are version 1, bytes [4,8) are the number
\* of body bytes little-endian, and the body is the UTF-8 JSON text of the
\* payload.
C20_HeaderLayout ==
    (cpc \in {"encoded", "decoded"} /\ ~cbuf.threw) =>
        LET b == cbuf.buf
        IN  /\ cin.signal \in 0..65535
            /\ Len(b) >= 12
            /\ b[1] = cin.signal % 256
            /\ b[2] = cin.signal \div 256
            /\ b[3] = 1 /\ b[4] = 0
            /\ DeclaredLength(b) = Len(b) - 12
            /\ SubSeq(b, 13, Len(b)) = Utf8Encode(JSONStringify(cin.payload))
            /\ \A i \in 1..Len(b) : b[i] \in 0..255

\* A code above 255 with a body of more bytes than characters has been encoded.
C20_Witness ==
    /\ cpc = "encoded"
    /\ ~cbuf.threw
    /\ cin.signal = 256
    /\ cin.payload = JStr(<<233>>)
    /\ Len(cbuf.buf) = 16

(***************************************************************************)
(* The Tumbler on its own: any sequence of operations on one Tumbler,      *)
(* constructed with or without a whitelist of its own and with rejection   *)
(* logging on or off.                                                      *)
(***************************************************************************)
TumblerInit ==
    /\ cpc = "off"
    /\ cin = [signal |-> 0, payload |-> JNull, now |-> 0]
    /\ cbuf = EncodeThrew
    /\ cmsg = NoMessage
    /\ socket = 0
    /\ handles = <<>>
    /\ handlers = [c \in Codes |-> <<>>]
    /\ globalHandlers = <<>>
    /\ peers = <<>>
    /\ crashed = FALSE
    /\ last = [op |-> "none"]
    /\ defaultWhitelist = DEFAULT_WHITELIST
    /\ \E config \in TumblerConfigs :
          tumblers = [i \in Tumblers |->
                         IF i = "tumbler" THEN NewTumbler(config)
                         ELSE NewTumbler(NoConfig)]
    /\ misses = [i \in Tumblers |-> 0]
    /\ tlast = [op |-> "none"]
    /\ HttpIdle

TumblerNext ==
    \/ \E signalType \in TumblerCodes : IsAllowed("tumbler", signalType)
    \/ \E signalType \in TumblerCodes : Allow("tumbler", signalType)
    \/ \E signalType \in TumblerCodes : Deny("tumbler", signalType)
    \/ GetWhitelist("tumbler")
    \/ MutateReturned
    \/ ResetStats("tumbler")

TumblerSpec == TumblerInit /\ [][TumblerNext]_vars

\* C13: right after allow(code) the code is in the whitelist (isAllowed(code)
\* is true), right after deny(code) it is not (isAllowed(code) is false),
\* whatever the whitelist was before; for every other code, membership is as
\* it was before the call.
C13_AllowDenyEffect ==
    tlast.op \in {"allow", "deny"} =>
        /\ includes(Whitelist(tlast.inst), tlast.code) = (tlast.op = "allow")
        /\ \A c \in 0..255 :
              c /= tlast.code =>
                  includes(Whitelist(tlast.inst), c) = includes(tlast.before, c)

\* A code that occurred twice in the whitelist has been denied.
C13_Witness ==
    /\ tlast.op = "deny"
    /\ tlast.before = <<BUILD_STARTED, 255, BUILD_STARTED>>
    /\ tlast.code = BUILD_STARTED
    /\ Whitelist(tlast.inst) = <<255>>

\* C14: changing the array getWhitelist() returned (push, pop, overwrite)
\* leaves the Tumbler as it was: its whitelist, hence isAllowed and
\* getWhitelist, and its getStats are what they were before the change.
C14_WhitelistCopy ==
    tlast.op = "mutated" =>
        /\ Whitelist(tlast.inst) = tlast.before
        /\ getStats(tlast.inst) = tlast.stats
        /\ getWhitelist(tlast.inst).array = tlast.before
        /\ \A c \in TumblerCodes :
              includes(Whitelist(tlast.inst), c) = includes(tlast.before, c)

\* The caller pushed 0xFF onto the array it got; the Tumbler does not allow it.
C14_Witness ==
    /\ tlast.op = "mutated"
    /\ includes(tlast.ret.array, 255)
    /\ ~includes(Whitelist(tlast.inst), 255)

\* The number of times code c occurs in an array.
RECURSIVE Occurrences(_, _)
Occurrences(array, c) ==
    IF array = <<>> THEN 0
    ELSE (IF Head(array) = c THEN 1 ELSE 0) + Occurrences(Tail(array), c)

\* C15: allow(code) right after allow(code), and deny(code) right after
\* deny(code), on the same Tumbler leave the whitelist and its size as the
\* first call left them; allow never adds a code that is already there.
C15_AllowDenyIdempotent ==
    tlast.op \in {"allow", "deny"} =>
        /\ tlast.again =>
              /\ Whitelist(tlast.inst) = tlast.before
              /\ getStats(tlast.inst).whitelistSize = Len(tlast.before)
        /\ tlast.op = "allow" =>
              Occurrences(Whitelist(tlast.inst), tlast.code)
                  = IF includes(tlast.before, tlast.code)
                    THEN Occurrences(tlast.before, tlast.code) ELSE 1

\* allow(code) has been called twice in a row and the code is stored once.
C15_Witness ==
    /\ tlast.op = "allow"
    /\ tlast.again
    /\ tlast.code = INSPECTION_PASSED
    /\ Occurrences(Whitelist(tlast.inst), INSPECTION_PASSED) = 1

\* C16: with rejection logging enabled, getStats().rejectedCount is the number
\* of isAllowed calls that returned false since construction or the latest
\* resetStats(); with logging disabled it is 0; right after resetStats() it is
\* 0 and the whitelist is what it was.
C16_RejectedCount ==
    /\ \A i \in Tumblers :
          getStats(i).rejectedCount
              = IF tumblers[i].logRejected THEN misses[i] ELSE 0
    /\ tlast.op = "resetStats" =>
          /\ getStats(tlast.inst).rejectedCount = 0
          /\ Whitelist(tlast.inst) = tlast.before

\* A logging Tumbler rejected a call after resetStats() and counts one.
C16_Witness ==
    /\ tumblers["tumbler"].logRejected
    /\ tlast.op = "isAllowed"
    /\ ~tlast.ret
    /\ getStats("tumbler").rejectedCount = 1
    /\ misses["tumbler"] = 1

(***************************************************************************)
(* The node: main() constructs the Tumbler and the socket, awaits start()  *)
(* and then calls registerHandlers (handlers.ts), which registers a global *)
(* logger and one async handler for each of the five request codes.        *)
(* Handlers are numbered in registration order.  What the inspectors do    *)
(* is an input.  An async handler's work after an await is taken together  *)
(* with the dispatch that started it.                                      *)
(***************************************************************************)
LOGGER == <<1>>
RegisteredHandlers ==
    [c \in {BUILD_STARTED, INSPECTION_REQUESTED, PRE_INSPECTION_REQUESTED,
            SKILL_VALIDATION_REQUESTED, PROMPT_VALIDATION_REQUESTED} |->
        IF c = BUILD_STARTED THEN <<2>>
        ELSE IF c = INSPECTION_REQUESTED THEN <<3>>
        ELSE IF c = PRE_INSPECTION_REQUESTED THEN <<4>>
        ELSE IF c = SKILL_VALIDATION_REQUESTED THEN <<5>>
        ELSE <<6>>]

\* The code a handler was registered for; 0 for the global logger.
HandlerCode(h) ==
    IF h \in Range(LOGGER) THEN 0
    ELSE CHOOSE c \in DOMAIN RegisteredHandlers : h \in Range(RegisteredHandlers[c])

\* message.payload?.key: undefined for null, for a value that is no object and
\* for an object without the key.
Member(payload, key) ==
    IF payload.t # "obj" THEN JUndefined
    ELSE LET found == {k \in 1..Len(payload.m) : payload.m[k][1] = key}
         IN  IF found = {} THEN JUndefined
             ELSE payload.m[CHOOSE k \in found : \A j \in found : j <= k][2]

\* JavaScript truthiness
Truthy(v) ==
    IF v.t \in {"undefined", "null"} THEN FALSE
    ELSE IF v.t = "bool" THEN v.b
    ELSE IF v.t = "num" THEN v.n # 0
    ELSE IF v.t = "str" THEN v.s # <<>>
    ELSE TRUE

KeyBuildId == <<98, 117, 105, 108, 100, 95, 105, 100>>

\* The payloads the handlers send are object literals.
ReplyPayload == JObj(<< <<KeyK, JNum(7)>> >>)
ReplyClock == 1700000000

\* One call of send (to a port) or sendToPeer (to a name) in a handler body;
\* catch = TRUE for a call in the handler's catch block.
ToPort(signalType, port, catch) ==
    [peer |-> FALSE, code |-> signalType, port |-> port, name |-> "", catch |-> catch]
ToPeer(signalType, name, catch) ==
    [peer |-> TRUE, code |-> signalType, port |-> 0, name |-> name, catch |-> catch]

\* The body of an async handler as the calls it makes.  Calls run in order
\* while nothing is thrown ("running"); once a call throws, or the work before
\* the first call does, the calls of the try block are skipped and the calls
\* of the catch block run ("thrown", then "catching"); a throw in the catch
\* block, or one that no catch block follows, rejects the handler's promise.
\* The result is the datagrams written, as <<code, port>>, and the outcome.
RECURSIVE RunSends(_, _)
AfterCall(steps, acc, r) ==
    RunSends(Tail(steps),
             [sent |-> acc.sent
                       \o [k \in 1..Len(r.writes) |-> <<Head(steps).code, r.writes[k]>>],
              mode |-> IF ~r.threw THEN (IF Head(steps).catch THEN "catching" ELSE "running")
                       ELSE IF Head(steps).catch THEN "rejected" ELSE "thrown"])

RunSends(steps, acc) ==
    IF steps = <<>> \/ acc.mode = "rejected"
    THEN [sent |-> acc.sent,
          outcome |-> IF acc.mode \in {"thrown", "rejected"} THEN "rejects"
                      ELSE "returns"]
    ELSE IF Head(steps).catch = (acc.mode = "running")
    THEN RunSends(Tail(steps), acc)
    ELSE AfterCall(steps, acc,
                   IF Head(steps).peer
                   THEN sendToPeer(Head(steps).name, Head(steps).code, ReplyPayload,
                                   ReplyClock)
                   ELSE send(Head(steps).code, ReplyPayload, Head(steps).port,
                             ReplyClock))

\* What the inspector called by a handler does.
Work == {"PASSED", "BLOCKED", "throws"}

\* The calls in the body of the handler registered for a code, and whether
\* the work before the first call throws.
HandlerBody(code, message, port, work) ==
    IF code = 0 THEN [failed |-> FALSE, steps |-> <<>>]
    ELSE IF code = BUILD_STARTED
    THEN [failed |-> FALSE,
          steps |-> IF Truthy(Member(message.payload, KeyBuildId))
                    THEN <<ToPeer(BUILD_STARTED, "experience-layer", FALSE)>>
                    ELSE <<>>]
    ELSE IF code = INSPECTION_REQUESTED
    THEN [failed |-> message.payload = JNull \/ work = "throws",
          steps |-> <<ToPort(IF work = "PASSED" THEN INSPECTION_PASSED
                             ELSE INSPECTION_FAILED, port, FALSE),
                      ToPeer(IF work = "PASSED" THEN INSPECTION_PASSED
                             ELSE INSPECTION_FAILED, "experience-layer", FALSE)>>
                    \o (IF work = "BLOCKED"
                        THEN <<ToPeer(LESSON_EXTRACTED, "experience-layer", FALSE)>>
                        ELSE <<>>)
                    \o <<ToPort(INSPECTION_FAILED, port, TRUE)>>]
    ELSE [failed |-> message.payload = JNull \/ work = "throws",
          steps |-> <<ToPort(PRE_INSPECTION_COMPLETE, port, FALSE),
                      ToPort(PRE_INSPECTION_COMPLETE, port, TRUE)>>]

StartMode(body) == [sent |-> <<>>, mode |-> IF body.failed THEN "thrown" ELSE "running"]

RunBody(body) == RunSends(body.steps, StartMode(body))

\* The handler registered as number h, called with (message, rinfo).
RunHandler(h, message, port, work) ==
    RunBody(HandlerBody(HandlerCode(h), message, port, work))

\* The datagrams that reach the node.
DgBuildId ==
    encodeMessage(BUILD_STARTED, JObj(<< <<KeyBuildId, JStr(<<97>>)>> >>), 1700000000).buf
DgInspectNull == RawHeader(INSPECTION_REQUESTED, 0, 0)
DgPre == encodeMessage(PRE_INSPECTION_REQUESTED, JObj(<< <<KeyK, JNum(7)>> >>), 0).buf
DgPassed == encodeMessage(INSPECTION_PASSED, JObj(<< <<KeyK, JNum(7)>> >>), 0).buf
NodeDatagrams ==
    {DgBuildId, DgBuild, DgInspect, DgInspectNull, DgPre, DgPassed, DgBadJson, DgTooShort}

NodeDecoded == [d \in NodeDatagrams |-> decodeMessage(d)]

\* rinfo.port of a datagram that arrived
SenderPorts == {4000}

\* await interlockSocket.start() returned: registerHandlers(interlockSocket)
RegisterHandlers ==
    /\ ~crashed
    /\ Len(handles) = 1
    /\ handles[1].promise = "resolved"
    /\ NumRegistered = 0
    /\ globalHandlers' = LOGGER
    /\ handlers' = RegisteredHandlers
    /\ last' = [op |-> "registerHandlers"]
    /\ UNCHANGED <<socket, handles, peers, crashed, codecVars, tumblerVars, httpVars>>

\* main() calls start() once.
NodeStart == handles = <<>> /\ Start

\* The outcomes of the handlers, as Dispatch takes them.
OutcomeOf(run) == [h \in DOMAIN run |-> run[h].outcome]

\* The record of one received datagram.  listed: the code was in the
\* Tumbler's whitelist as the datagram arrived.
Received(d, message, run, r) ==
    [op |-> "recv", dgram |-> d, nreg |-> NumRegistered,
     calls |-> r.calls, caught |-> r.caught, escaped |-> r.escaped,
     sent |-> Flatten([k \in 1..Len(r.calls) |-> run[r.calls[k]].sent]),
     listed |-> message.ok /\ includes(Whitelist("tumbler"), message.signalType)]

Dispatched(d, message, run) == Received(d, message, run, Dispatch(message, OutcomeOf(run)))

\* A datagram arrives at the node.  A 'message' event is not delivered
\* between the 'listening' event that resolves start() and the continuation
\* of main() that calls registerHandlers (the continuation is a microtask).
NodeReceive ==
    \E d \in NodeDatagrams, port \in SenderPorts, work \in Work :
        /\ ~crashed
        /\ Len(handles) = 1
        /\ handles[1].st = "listening"
        /\ Open(1)
        /\ NumRegistered > 0
        /\ last' = Dispatched(d, NodeDecoded[d],
                              [h \in 1..NumRegistered |->
                                  RunHandler(h, NodeDecoded[d], port, work)])
        /\ crashed' \in (IF last'.escaped THEN {TRUE, FALSE} ELSE {FALSE})
        /\ UNCHANGED <<socket, handles, handlers, globalHandlers, peers, codecVars, tumblerVars, httpVars>>

\* tumbler.allow / tumbler.deny while the node runs, for a code that has a
\* handler and for one that has none.
NodeTumblerCodes == {BUILD_STARTED, INSPECTION_PASSED}

NodeAllow ==
    \E signalType \in NodeTumblerCodes :
        /\ ~crashed
        /\ Allow("tumbler", signalType)

NodeDeny ==
    \E signalType \in NodeTumblerCodes :
        /\ ~crashed
        /\ Deny("tumbler", signalType)

NodeNext ==
    \/ NodeStart
    \/ BindOk
    \/ BindFail
    \/ RegisterHandlers
    \/ NodeReceive
    \/ NodeAllow
    \/ NodeDeny

NodeSpec == Init /\ [][NodeNext]_vars

C12_RejectedDatagramSilent ==
    (last.op = "recv" /\ ~last.listed) => last.sent = <<>>

\* The codes the node is documented to emit (protocol.ts, "Emits") that the
\* handlers use.
EmitCodes ==
    {INSPECTION_PASSED, INSPECTION_FAILED, PRE_INSPECTION_COMPLETE, LESSON_EXTRACTED}

\* C21: every datagram the handlers write carries INSPECTION_PASSED,
\* INSPECTION_FAILED, PRE_INSPECTION_COMPLETE or LESSON_EXTRACTED, never one
\* of the codes the node receives.
C21_EmitCodesOnly ==
    last.op = "recv" =>
        \A k \in 1..Len(last.sent) : last.sent[k][1] \in EmitCodes

\* C22: every on()/onAny() call of the hosting process happens before start()
\* is called: once a socket handle exists the application's handlers are
\* registered, so the socket is never listening without them.
C22_RegisteredBeforeStart ==
    handles # <<>> => NumRegistered > 0

(***************************************************************************)
(* createRateLimiter (middleware.ts).  Time is counted in units; windowMs  *)
(* is WindowMs units.  The store maps a key to {count, resetTime}.  hist   *)
(* lists the requests in order of arrival: key, time, and whether next()   *)
(* was called (otherwise the answer was 429).  pending lists the passed    *)
(* requests on whose response a 'finish' listener waits, with the          *)
(* resetTime of the entry the listener holds.                              *)
(***************************************************************************)
WindowMs == 2
RateMax == 2
MaxClock == 4
MaxRequests == 4

RateLimitOptions ==
    [windowMs : {WindowMs}, max : {RateMax}, skipFailedRequests : BOOLEAN]

\* if (!store[key] || store[key].resetTime < now)
Expired(entry, now) == ~entry.present \/ entry.resetTime < now

\* store[key] after "initialize or reset if window expired"
Current(entry, now, windowMs) ==
    IF Expired(entry, now)
    THEN [present |-> TRUE, count |-> 0, resetTime |-> now + windowMs]
    ELSE entry

\* A slip: the request that reaches the limit is refused as well.
OverLimitInclusive(count, max) == count >= max

\* if (entry.count > max)
OverLimit(count, max) == count > max

RateInit ==
    /\ cpc = "off"
    /\ cin = [signal |-> 0, payload |-> JNull, now |-> 0]
    /\ cbuf = EncodeThrew
    /\ cmsg = NoMessage
    /\ socket = 0
    /\ handles = <<>>
    /\ handlers = [c \in Codes |-> <<>>]
    /\ globalHandlers = <<>>
    /\ peers = <<>>
    /\ crashed = FALSE
    /\ last = [op |-> "none"]
    /\ TumblersConstructed
    /\ \E options \in RateLimitOptions :
          store = [opts |-> options, entries |-> [k \in Keys |-> NoEntry]]
    /\ clock = 0
    /\ hist = <<>>
    /\ pending = <<>>
    /\ res = [q \in Requests |-> NoResponse]

\* The returned middleware, called for a request of key keyGenerator(req).
RateRequest ==
    \E key \in Keys :
        LET entry == Current(store.entries[key], clock, store.opts.windowMs)
            count == entry.count + 1
            passed == ~OverLimit(count, store.opts.max)
        IN  /\ Len(hist) < MaxRequests
            /\ store' = [store EXCEPT !.entries[key] = [entry EXCEPT !.count = count]]
            /\ hist' = Append(hist, [key |-> key, t |-> clock, passed |-> passed])
            /\ pending' = IF passed /\ store.opts.skipFailedRequests
                          THEN Append(pending, [key |-> key, resetTime |-> entry.resetTime])
                          ELSE pending
            /\ UNCHANGED <<clock, res, codecVars, socketVars, tumblerVars>>

\* res.on('finish') of a passed request whose statusCode is 400 or more:
\* entry.count = Math.max(0, entry.count - 1) on the entry the listener holds,
\* which is the stored one only while the store still refers to it.
RateFinishFailed ==
    \E i \in 1..Len(pending) :
        LET p == pending[i]
            entry == store.entries[p.key]
        IN  /\ pending' = SubSeq(pending, 1, i - 1) \o SubSeq(pending, i + 1, Len(pending))
            /\ store' = IF entry.present /\ entry.resetTime = p.resetTime
                        THEN [store EXCEPT !.entries[p.key].count =
                                 IF @ > 0 THEN @ - 1 ELSE 0]
                        ELSE store
            /\ UNCHANGED <<clock, hist, res, codecVars, socketVars, tumblerVars>>

\* The setInterval callback: delete every entry whose resetTime < now.
RateCleanup ==
    /\ \E k \in Keys : store.entries[k].present /\ store.entries[k].resetTime < clock
    /\ store' = [store EXCEPT !.entries =
                    [k \in Keys |-> IF store.entries[k].present
                                       /\ store.entries[k].resetTime < clock
                                    THEN NoEntry ELSE store.entries[k]]]
    /\ UNCHANGED <<clock, hist, pending, res, codecVars, socketVars, tumblerVars>>

\* Time passes.
RateTick ==
    /\ clock < MaxClock
    /\ clock' = clock + 1
    /\ UNCHANGED <<store, hist, pending, res, codecVars, socketVars, tumblerVars>>

RateNext ==
    \/ RateRequest
    \/ RateFinishFailed
    \/ RateCleanup
    \/ RateTick

RateSpec == RateInit /\ [][RateNext]_vars

\* The rate limiter's windows of one key, by its requests alone: a window
\* opens with the first request of the key and with the first request later
\* than windowMs after the opening of the window before.  For the requests
\* hist[1..n]: the opening time of the key's current window (-1: none) and
\* the number of the key's requests in it.
RECURSIVE Window(_, _)
Window(key, n) ==
    IF n = 0 THEN [open |-> -1, n |-> 0]
    ELSE LET w == Window(key, n - 1)
         IN  IF hist[n].key # key THEN w
             ELSE IF w.open = -1 \/ hist[n].t > w.open + store.opts.windowMs
             THEN [open |-> hist[n].t, n |-> 1]
             ELSE [open |-> w.open, n |-> w.n + 1]

\* C23 as stated: in one window of one key the first max requests are passed
\* on and every further request is answered 429, whatever other keys do and
\* whatever the options are.
C23_FirstMaxPass ==
    \A n \in 1..Len(hist) :
        hist[n].passed = (Window(hist[n].key, n).n <= store.opts.max)

\* C23 amended: with skipFailedRequests off (the default), in one window of
\* one key the first max requests are passed on and every further request is
\* answered 429; requests of another key do not count.
C23_FirstMaxPassNoSkip ==
    ~store.opts.skipFailedRequests =>
        \A n \in 1..Len(hist) :
            hist[n].passed = (Window(hist[n].key, n).n <= store.opts.max)

\* Three requests of one key at one time with one of another key in between:
\* the third of the key is refused, the other key's is passed.
C23_Witness ==
    /\ ~store.opts.skipFailedRequests
    /\ Len(hist) = 4
    /\ hist[1].key = hist[2].key /\ hist[3].key # hist[1].key /\ hist[4].key = hist[1].key
    /\ hist[4].t = hist[1].t
    /\ hist[1].passed /\ hist[2].passed /\ hist[3].passed /\ ~hist[4].passed

\* C24: for every key and every interval [s, s + windowMs), wherever it
\* starts, at most max requests of the key are passed on (here with
\* skipFailedRequests off).
C24_SlidingWindow ==
    ~store.opts.skipFailedRequests =>
        \A key \in Keys, s \in 0..MaxClock :
            Cardinality({n \in 1..Len(hist) :
                            /\ hist[n].key = key
                            /\ hist[n].passed
                            /\ hist[n].t >= s
                            /\ hist[n].t < s + store.opts.windowMs})
                <= store.opts.max

\* C25: no allow, deny, isAllowed or resetStats on one Tumbler instance (here
\* the constructed one, whatever its configuration) changes what isAllowed,
\* getWhitelist or getStats answer on another (here the exported
\* defaultTumbler).
C25_TumblersIsolated ==
    [][tlast'.op \in {"allow", "deny", "isAllowed", "resetStats"}
         /\ tlast'.inst = "tumbler"
       => /\ getWhitelist("defaultTumbler")' = getWhitelist("defaultTumbler")
          /\ getStats("defaultTumbler")' = getStats("defaultTumbler")
          /\ \A c \in TumblerCodes :
                includes(Whitelist("defaultTumbler"), c)'
                    = includes(Whitelist("defaultTumbler"), c)]_vars

\* What dgram's socket.send, which send() calls whenever this.socket is set,
\* does with a datagram, by the state of the handle: a bound socket writes it
\* at once; a binding one queues it until 'listening' and drops it on 'error'
\* or close; one whose bind failed is unbound again, so it is bound to a port
\* of the OS's choice and the datagram is written from there.
DgramSend(st) ==
    CASE st = "listening" -> "written"
      [] st = "binding" -> "queued"
      [] st = "failed" -> "rebound"
      [] OTHER -> "none"

\* C26: a datagram of send(), broadcast() or sendToPeer() reaches the OS only
\* through a socket that is (or, for a queued one, has become) Listening on
\* the configured port: before start(), after a start() that failed to bind
\* and after stop() the call writes nothing.
C26_WritesOnlyListening ==
    (last.op \in {"sendToPeer", "broadcast"} /\ last.writes # <<>>)
        => DgramSend(last.hst) \in {"written", "queued"}

\* C27: after stop() has returned, no OS socket handle that an earlier
\* start() created is still open, whatever the sequence of start() and
\* stop() calls and whether or not the binds succeeded.
C27_NoHandleLeftOpen ==
    last.op = "stop" => \A i \in 1..Len(handles) : ~Open(i)

\* The socket specification with the event loop's fairness: a bind that is
\* under way on an open socket completes or fails.
LiveSpec == Init /\ [][Next]_vars /\ WF_vars(BindOk \/ BindFail)

\* C28: the promise of every start() is eventually resolved or rejected,
\* also when stop() is called while the socket is still binding.
C28_StartSettles ==
    \A i \in 1..MaxStarts :
        [](Len(handles) >= i
               => <>(Len(handles) >= i /\ handles[i].promise # "pending"))

(***************************************************************************)
(* handleMessage when a handler registers handlers while it runs.  The     *)
(* for...of loops iterate the arrays themselves, and on() and onAny() push *)
(* onto those arrays, so an element pushed during a loop is visited by it. *)
(* What a handler does when called is an input: it returns, it registers   *)
(* itself again for the message's code (on) or for all messages (onAny),   *)
(* or it registers another handler, LateHandler, which only returns.       *)
(***************************************************************************)
LateBehaviours == {"returns", "onSelf", "onPlain", "onAnySelf", "onAnyPlain"}
LateHandler == MaxHandlers + 1

\* No dispatch that ends makes more calls than this: ReceiveLate starts with
\* at most MaxHandlers handlers, and each of them pushes at most one handler.
MaxCalls == 2 * MaxHandlers

\* The handler h pushes when called: 0 for none.
Pushed(b, h) ==
    CASE b \in {"onSelf", "onAnySelf"} -> h
      [] b \in {"onPlain", "onAnyPlain"} -> LateHandler
      [] OTHER -> 0

\* for (const handler of signalHandlers) {...} for (const handler of
\* this.globalHandlers) {...}: st.k is the iterator's index into the array.
RECURSIVE LiveLoop(_, _)
LiveLoop(st, beh) ==
    LET list == IF st.phase = "signal" THEN st.sig ELSE st.glob
    IN  IF Len(st.calls) > MaxCalls THEN [st EXCEPT !.phase = "running"]
        ELSE IF st.k > Len(list)
        THEN IF st.phase = "signal"
             THEN LiveLoop([st EXCEPT !.phase = "global", !.k = 1], beh)
             ELSE [st EXCEPT !.phase = "done"]
        ELSE LET h == list[st.k]
                 b == IF h = LateHandler THEN "returns" ELSE beh[h]
             IN  LiveLoop([phase |-> st.phase,
                           k |-> st.k + 1,
                           sig |-> IF b \in {"onSelf", "onPlain"}
                                   THEN Append(st.sig, Pushed(b, h)) ELSE st.sig,
                           glob |-> IF b \in {"onAnySelf", "onAnyPlain"}
                                    THEN Append(st.glob, Pushed(b, h)) ELSE st.glob,
                           calls |-> Append(st.calls, h)],
                          beh)

\* handleMessage after a successful decode
HandleMessageLive(sig, glob, beh) ==
    LiveLoop([phase |-> "signal", k |-> 1, sig |-> sig, glob |-> glob,
              calls |-> <<>>], beh)

\* A well-formed datagram arrives on a listening socket.  A dispatch that is
\* still running after MaxCalls calls runs on without end: it occupies the
\* event loop for good.
ReceiveLate ==
    \E i \in 1..Len(handles), d \in ValidDatagrams :
      \E beh \in [Callable(Decoded[d]) \ {LateHandler} -> LateBehaviours] :
        /\ ~crashed
        /\ handles[i].st = "listening"
        /\ Open(i)
        /\ NumRegistered <= MaxHandlers
        /\ LET signalType == Decoded[d].signalType
               r == HandleMessageLive(SignalHandlers(signalType), globalHandlers, beh)
           IN  /\ handlers' = [handlers EXCEPT ![signalType] = r.sig]
               /\ globalHandlers' = r.glob
               /\ crashed' = (r.phase = "running")
               /\ last' = [op |-> "dispatch",
                           arrival |-> SignalHandlers(signalType) \o globalHandlers,
                           calls |-> r.calls,
                           ended |-> r.phase = "done"]
        /\ UNCHANGED <<socket, handles, peers, codecVars, tumblerVars, httpVars>>

LateNext ==
    \/ Start
    \/ BindOk
    \/ On
    \/ OnAny
    \/ ReceiveLate

LateSpec == Init /\ [][LateNext]_vars

\* C29: the dispatch of one datagram calls exactly the handlers registered
\* when the datagram arrived, each once and in order, and then ends, also
\* when a handler calls on() for the same code or onAny() while it runs.
C29_DispatchAsRegistered ==
    last.op = "dispatch" => last.ended /\ last.calls = last.arrival

(***************************************************************************)
(* withTimeout and createRequestTimeout (middleware.ts).  For each request *)
(* the response object res records the statuses written to the client      *)
(* (writes), the writes Express refused because the headers were already   *)
(* sent (refused), and who answered first.  What the wrapped handler does  *)
(* is an input: it answers with res.json and goes on, it returns, it       *)
(* throws, or it stays pending.                                            *)
(***************************************************************************)
REQUEST_TIMEOUT == 408
Wrappers == {"withTimeout", "createRequestTimeout"}
HandlerStatuses == {200}
ErrorStatuses == {500, REQUEST_TIMEOUT}

\* res.status(status).json(body): Express sets headers on the way, which
\* throws ERR_HTTP_HEADERS_SENT once a response has been sent.
ResJson(r, status, who) ==
    IF r.headersSent THEN [r EXCEPT !.refused = TRUE]
    ELSE [r EXCEPT !.headersSent = TRUE,
                   !.writes = Append(@, status),
                   !.first = who]

\* A slip: the timer's callback answers nothing.
TimerCallbackSilent(r) == r

\* setTimeout(() => { if (!res.headersSent) res.status(408).json(...) }, ms)
TimerCallback(r) ==
    IF ~r.headersSent THEN ResJson(r, REQUEST_TIMEOUT, "timer") ELSE r

\* enhancedErrorHandler, where next(error) arrives
enhancedErrorHandler(r, status) ==
    IF r.headersSent THEN r ELSE ResJson(r, status, "error")

\* catch (error) { ... }: withTimeout calls next(error) only when no headers
\* were sent, createRequestTimeout always.
Catch(r, status) ==
    IF r.kind = "withTimeout" /\ r.headersSent THEN r
    ELSE enhancedErrorHandler([r EXCEPT !.nexts = TRUE], status)

\* finally { clearTimeout(timeoutId); }
Finally(r) ==
    [r EXCEPT !.pc = "closed", !.timer = IF @ = "armed" THEN "cleared" ELSE @]

\* The wrapper is called for a request: the timer is set, the handler starts.
TimeoutRequest ==
    \E q \in Requests, kind \in Wrappers :
        /\ res[q].pc = "none"
        /\ res' = [res EXCEPT ![q] =
                      [pc |-> "open", kind |-> kind, timer |-> "armed",
                       handler |-> "running", tried |-> FALSE,
                       headersSent |-> FALSE, writes |-> <<>>, refused |-> FALSE,
                       nexts |-> FALSE, first |-> "none"]]
        /\ UNCHANGED <<store, clock, hist, pending, codecVars, socketVars, tumblerVars>>

\* ms have passed and the timer has not been cleared.
TimerFires ==
    \E q \in Requests :
        /\ res[q].pc # "none"
        /\ res[q].timer = "armed"
        /\ res' = [res EXCEPT ![q] = [TimerCallback(res[q]) EXCEPT !.timer = "fired"]]
        /\ UNCHANGED <<store, clock, hist, pending, codecVars, socketVars, tumblerVars>>

\* The handler answers: res.json(result).  When that throws, the handler's
\* promise rejects and the wrapper's catch and finally run.
HandlerResponds ==
    \E q \in Requests, status \in HandlerStatuses :
        /\ res[q].pc = "open"
        /\ res[q].handler = "running"
        /\ ~res[q].tried
        /\ LET r == ResJson([res[q] EXCEPT !.tried = TRUE], status, "handler")
           IN  res' = [res EXCEPT ![q] =
                          IF r.refused
                          THEN Finally(Catch([r EXCEPT !.handler = "threw"], 500))
                          ELSE r]
        /\ UNCHANGED <<store, clock, hist, pending, codecVars, socketVars, tumblerVars>>

\* The handler's promise resolves: finally.
HandlerReturns ==
    \E q \in Requests :
        /\ res[q].pc = "open"
        /\ res[q].handler = "running"
        /\ res' = [res EXCEPT ![q] = Finally([@ EXCEPT !.handler = "returned"])]
        /\ UNCHANGED <<store, clock, hist, pending, codecVars, socketVars, tumblerVars>>

\* The handler's promise rejects with an error of its own: catch, finally.
HandlerThrows ==
    \E q \in Requests, status \in ErrorStatuses :
        /\ res[q].pc = "open"
        /\ res[q].handler = "running"
        /\ res' = [res EXCEPT ![q] =
                      Finally(Catch([@ EXCEPT !.handler = "threw"], status))]
        /\ UNCHANGED <<store, clock, hist, pending, codecVars, socketVars, tumblerVars>>

TimeoutInit ==
    /\ cpc = "off"
    /\ cin = [signal |-> 0, payload |-> JNull, now |-> 0]
    /\ cbuf = EncodeThrew
    /\ cmsg = NoMessage
    /\ socket = 0
    /\ handles = <<>>
    /\ handlers = [c \in Codes |-> <<>>]
    /\ globalHandlers = <<>>
    /\ peers = <<>>
    /\ crashed = FALSE
    /\ last = [op |-> "none"]
    /\ TumblersConstructed
    /\ HttpIdle

TimeoutNext ==
    \/ TimeoutRequest
    \/ TimerFires
    \/ HandlerResponds
    \/ HandlerReturns
    \/ HandlerThrows

TimeoutSpec == TimeoutInit /\ [][TimeoutNext]_vars

\* C30: for every request through withTimeout or createRequestTimeout at
\* most one response is written, however the timer and the handler
\* interleave; when the timer fires first that response is the 408, and a
\* handler that answers afterwards adds no second one.
C30_OneResponse ==
    \A q \in Requests :
        res[q].pc # "none" =>
            /\ Len(res[q].writes) <= 1
            /\ (res[q].timer = "fired" /\ res[q].first \in {"none", "timer"})
                   => res[q].writes = <<REQUEST_TIMEOUT>>

\* The timer has answered 408 and the handler's later res.json was refused.
C30_Witness ==
    \E q \in Requests :
        /\ res[q].pc = "closed"
        /\ res[q].first = "timer"
        /\ res[q].tried /\ res[q].refused
        /\ res[q].writes = <<REQUEST_TIMEOUT>>

====
